---- MODULE Spec2Model ----
(***************************************************************************)
(* Model of src/lib/transformer/util/getSchemaByType.ts: the recursive     *)
(* derivation of an OpenAPI schema from a graph of TypeScript types.       *)
(* The recursion getSchemaByType -> addRefTypeSchema -> extendClass is     *)
(* unfolded into an explicit call stack; the shared config (typeCache,     *)
(* schemaObjects) is the mutable state of one root traversal.              *)
(***************************************************************************)
EXTENDS Integers, Sequences, FiniteSets, TLC

\* ------------------------------------------------------------------ bounds
\* number of nominal (class/interface) types whose name and member vary
NumNominal == 3
\* cap on the depth of the modelled call stack (never reached, see C1)
MaxDepth == 14

\* ------------------------------------------------------------ state
VARIABLES
  names,         \* input: declared name (symbol.escapedName) of each varying nominal type
  targets,       \* input: type of the single member "p" of each varying nominal type
  member,        \* input: the member symbol of the anonymous type "M"
  root,          \* input: arguments of the root call of getSchemaByType
  stack,         \* call stack, innermost call last
  ret,           \* value returned by the call that returned last (<<>>: none)
  typeCache,     \* config.typeCache
  schemaObjects, \* config.schemaObjects
  status,        \* "running", "returned" (root call returned) or "thrown" (TypeError)
  expanded       \* history: for each type, the fragment line 124 obtained for it

vars == <<names, targets, member, root, stack, ret, typeCache, schemaObjects, status, expanded>>

NoType == ""

NominalIds == <<"N1", "N2", "N3", "N4", "N5">>
Nominals == {NominalIds[i] : i \in 1..NumNominal}
NominalIndex(id) == CHOOSE i \in 1..NumNominal : NominalIds[i] = id

\* ------------------------------------------------------------ type graph
\* What the code reads from a ts.Type.
BaseType ==
  [symName |-> "", typeArguments |-> <<>>, isArray |-> FALSE, flagBoolean |-> FALSE,
   isUnion |-> FALSE, isIntersection |-> FALSE, types |-> <<>>,
   flagEnumLiteral |-> FALSE, value |-> "", isClassOrInterface |-> FALSE,
   anonymous |-> FALSE, text |-> "", comment |-> "", indexType |-> NoType,
   props |-> <<>>, declArrow |-> FALSE]

\* What the code reads from a member ts.Symbol.
BaseSymbol ==
  [escapedName |-> "p", hasDecl |-> TRUE, modifier |-> "none", declKind |-> "property",
   questionToken |-> FALSE, targetType |-> NoType, propType |-> NoType, comment |-> ""]

Prop(name, type) == [BaseSymbol EXCEPT !.escapedName = name, !.propType = type]
OptProp(name, type) == [Prop(name, type) EXCEPT !.questionToken = TRUE]

Primitive(text) == [BaseType EXCEPT !.text = text]
EnumLiteral(v) == [BaseType EXCEPT !.flagEnumLiteral = TRUE, !.value = v, !.text = v]
UnionOf(ts) == [BaseType EXCEPT !.isUnion = TRUE, !.types = ts]
Class(name, ps) == [BaseType EXCEPT !.isClassOrInterface = TRUE, !.symName = name, !.props = ps]
Anonymous(ps) == [BaseType EXCEPT !.anonymous = TRUE, !.symName = "__type", !.props = ps]
PromiseOf(t, text) ==
  [BaseType EXCEPT !.symName = "Promise", !.typeArguments = <<t>>, !.text = text]

FixedTypes ==
  {"number", "string", "boolean", "true", "false", "Ok", "Error", "Status", "Mixed",
   "U12", "Date", "Object", "Function", "Arrow", "N1[]", "Inter", "Anon", "Dict",
   "Promise<N1>", "Promise<Promise<N1>>", "Promise<boolean>", "Node", "M"}

TypeIds == Nominals \cup FixedTypes

TypeOf(id) ==
  IF id \in Nominals
  THEN Class(names[NominalIndex(id)], <<Prop("p", targets[NominalIndex(id)])>>)
  ELSE CASE id = "number" -> Primitive("number")
         [] id = "string" -> Primitive("string")
         [] id = "boolean" ->
              [UnionOf(<<"true", "false">>) EXCEPT !.flagBoolean = TRUE, !.text = "boolean"]
         [] id = "true" -> Primitive("true")
         [] id = "false" -> Primitive("false")
         [] id = "Ok" -> EnumLiteral("Ok")
         [] id = "Error" -> EnumLiteral("Error")
         [] id = "Status" ->
              [UnionOf(<<"Ok", "Error">>) EXCEPT !.symName = "Status", !.comment = "status"]
         [] id = "Mixed" -> UnionOf(<<"number", "N1">>)
         [] id = "U12" -> UnionOf(<<"N1", "N2">>)
         [] id = "Date" -> Class("Date", <<>>)
         [] id = "Object" -> Class("Object", <<>>)
         [] id = "Function" -> Class("Function", <<>>)
         [] id = "Arrow" -> [Anonymous(<<>>) EXCEPT !.declArrow = TRUE]
         [] id = "N1[]" ->
              [BaseType EXCEPT !.isArray = TRUE, !.symName = "Array", !.typeArguments = <<"N1">>]
         [] id = "Inter" ->
              [BaseType EXCEPT !.isIntersection = TRUE, !.types = <<"N1", "Anon">>]
         [] id = "Anon" -> Anonymous(<<Prop("a", "N1"), OptProp("b", "N2")>>)
         [] id = "Dict" -> [Anonymous(<<>>) EXCEPT !.indexType = "N1"]
         [] id = "Promise<N1>" -> PromiseOf("N1", "Promise<N1>")
         [] id = "Promise<Promise<N1>>" -> PromiseOf("Promise<N1>", "Promise<Promise<N1>>")
         [] id = "Promise<boolean>" -> PromiseOf("boolean", "Promise<boolean>")
         [] id = "Node" ->
              Class("Node", <<Prop("value", "number"), OptProp("next", "Node")>>)
         [] id = "M" -> Anonymous(<<member>>)

\* ------------------------------------------------------------ schema fragments
\* A SchemaObject / ReferenceObject; an absent key is "" or <<>>.
\* A schema name `${typeName}` is <<typeName, 0>>, `${typeName}_${i}` is <<typeName, i>>.
EmptySchema ==
  [description |-> "", type |-> "", format |-> "", ref |-> <<>>, items |-> <<>>,
   enum |-> <<>>, oneOf |-> <<>>, allOf |-> <<>>, hasProperties |-> FALSE,
   properties |-> <<>>, required |-> <<>>, additionalProperties |-> <<>>]

\* lines 30-34: defaultSchemaObject
DefaultSchemaObject(t) == [EmptySchema EXCEPT !.description = TypeOf(t).comment]

\* lines 105-107, 138-140: { $ref: `#/components/schemas/${schemaName}` }
RefObject(schemaName) == [EmptySchema EXCEPT !.ref = <<schemaName>>]

\* getHashCode: a structural content hash, taken without collisions
GetHashCode(schema) == <<schema>>

\* lines 26-28: the Promise unwrap
Unwrap(t) == IF TypeOf(t).symName = "Promise" THEN TypeOf(t).typeArguments[1] ELSE t

AllEnumLiteral(ts) == \A k \in 1..Len(ts) : TypeOf(ts[k]).flagEnumLiteral

\* lines 36-97: the arm of the dispatch taken for the (unwrapped) type t
ArmUnionFirst(t) ==
  LET d == TypeOf(t) IN
  IF d.isArray THEN "array"
  ELSE IF d.isUnion THEN (IF AllEnumLiteral(d.types) THEN "enum" ELSE "oneOf")
  ELSE IF d.flagBoolean THEN "boolean"
  ELSE IF d.isIntersection THEN "allOf"
  ELSE IF d.isClassOrInterface
       THEN (CASE d.symName = "Date" -> "Date" [] d.symName = "Object" -> "Object"
               [] OTHER -> "class")
  ELSE IF d.anonymous THEN "anonymous"
  ELSE "fallback"

ArmAnonymousAsClass(t) ==
  LET d == TypeOf(t) IN
  IF d.isArray THEN "array"
  ELSE IF d.flagBoolean THEN "boolean"
  ELSE IF d.isUnion THEN (IF AllEnumLiteral(d.types) THEN "enum" ELSE "oneOf")
  ELSE IF d.isIntersection THEN "allOf"
  ELSE IF d.isClassOrInterface \/ d.anonymous
       THEN (CASE d.symName = "Date" -> "Date" [] d.symName = "Object" -> "Object"
               [] OTHER -> "class")
  ELSE "fallback"

Arm(t) ==
  LET d == TypeOf(t) IN
  IF d.isArray THEN "array"
  ELSE IF d.flagBoolean THEN "boolean"
  ELSE IF d.isUnion THEN (IF AllEnumLiteral(d.types) THEN "enum" ELSE "oneOf")
  ELSE IF d.isIntersection THEN "allOf"
  ELSE IF d.isClassOrInterface
       THEN (CASE d.symName = "Date" -> "Date" [] d.symName = "Object" -> "Object"
               [] OTHER -> "class")
  ELSE IF d.anonymous THEN "anonymous"
  ELSE "fallback"

\* ------------------------------------------------------------ call stack
\* One activation: fn is the function, type and extendClass its arguments
\* (config.extendClass), pc the place it waits at, i/acc the position and results
\* of a map/forEach, schema the object being built, schemaName the local of
\* addRefTypeSchema.
Frame(fn, t, ext) ==
  [fn |-> fn, type |-> t, extendClass |-> ext, pc |-> "entry", i |-> 0, acc |-> <<>>,
   schema |-> EmptySchema, schemaName |-> <<"", 0>>]

Top == stack[Len(stack)]

AtEntry(fn) == status = "running" /\ stack # <<>> /\ Top.fn = fn /\ Top.pc = "entry"
Resumed(fn, pc) ==
  status = "running" /\ stack # <<>> /\ Top.fn = fn /\ Top.pc = pc /\ ret # <<>>

\* return v from the innermost call
Return(v) ==
  /\ stack' = SubSeq(stack, 1, Len(stack) - 1)
  /\ ret' = <<v>>
  /\ status' = IF Len(stack) = 1 THEN "returned" ELSE status

\* the innermost call (continuing as frame f) calls getSchemaByType(t, {extendClass: ext})
Call(f, t, ext) ==
  /\ Len(stack) < MaxDepth
  /\ stack' = Append([stack EXCEPT ![Len(stack)] = f], Frame("getSchemaByType", t, ext))
  /\ ret' = <<>>
  /\ status' = status

\* the innermost call continues as frame f (also a tail call)
Continue(f) ==
  /\ stack' = [stack EXCEPT ![Len(stack)] = f]
  /\ ret' = <<>>
  /\ status' = status

Inputs == <<names, targets, member, root>>
Config == <<typeCache, schemaObjects, expanded>>

\* ------------------------------------------------------------ getSchemaByType
\* the type the dispatch of the innermost call acts on (lines 26-28)
Dispatched == Unwrap(Top.type)
Dispatch(arm) == AtEntry("getSchemaByType") /\ Arm(Dispatched) = arm

\* lines 36-41, up to the recursive call for the element type
ArrayArm ==
  /\ Dispatch("array")
  /\ Call([Top EXCEPT !.type = Dispatched, !.pc = "items"],
          TypeOf(Dispatched).typeArguments[1], Top.extendClass)
  /\ UNCHANGED <<Inputs, Config>>

\* lines 37-41, the return
ArrayReturn ==
  /\ Resumed("getSchemaByType", "items")
  /\ Return([DefaultSchemaObject(Top.type) EXCEPT !.type = "array", !.items = ret])
  /\ UNCHANGED <<Inputs, Config>>

\* lines 42-47
BooleanArm ==
  /\ Dispatch("boolean")
  /\ Return([DefaultSchemaObject(Dispatched) EXCEPT !.type = "boolean"])
  /\ UNCHANGED <<Inputs, Config>>

\* lines 50-57
EnumArm ==
  /\ Dispatch("enum")
  /\ LET ts == TypeOf(Dispatched).types IN
     Return([DefaultSchemaObject(Dispatched) EXCEPT
               !.type = "string",
               !.enum = [k \in 1..Len(ts) |-> TypeOf(ts[k]).value]])
  /\ UNCHANGED <<Inputs, Config>>

\* lines 58-63 and 65-71, up to the recursive call for the first member type
MembersArm ==
  /\ \/ Dispatch("oneOf")
     \/ Dispatch("allOf")
  /\ Call([Top EXCEPT !.type = Dispatched, !.pc = Arm(Dispatched), !.i = 1],
          TypeOf(Dispatched).types[1], Top.extendClass)
  /\ UNCHANGED <<Inputs, Config>>

\* lines 62 and 70: one iteration of types.map, and the return after the last
MembersStep ==
  /\ \/ Resumed("getSchemaByType", "oneOf")
     \/ Resumed("getSchemaByType", "allOf")
  /\ LET ts == TypeOf(Top.type).types
         acc == Top.acc \o ret
     IN IF Top.i < Len(ts)
        THEN Call([Top EXCEPT !.i = Top.i + 1, !.acc = acc], ts[Top.i + 1], Top.extendClass)
        ELSE Return(IF Top.pc = "oneOf"
                    THEN [DefaultSchemaObject(Top.type) EXCEPT !.type = "object", !.oneOf = acc]
                    ELSE [DefaultSchemaObject(Top.type) EXCEPT !.type = "object", !.allOf = acc])
  /\ UNCHANGED <<Inputs, Config>>

\* lines 74-79
DateArm ==
  /\ Dispatch("Date")
  /\ Return([DefaultSchemaObject(Dispatched) EXCEPT !.type = "string", !.format = "date"])
  /\ UNCHANGED <<Inputs, Config>>

\* lines 80-84
ObjectArm ==
  /\ Dispatch("Object")
  /\ Return([DefaultSchemaObject(Dispatched) EXCEPT !.type = "any"])
  /\ UNCHANGED <<Inputs, Config>>

\* lines 86-89: return extendClass(...) or addRefTypeSchema(...)
ClassArm ==
  /\ Dispatch("class")
  /\ Continue(Frame(IF Top.extendClass THEN "extendClass" ELSE "addRefTypeSchema",
                    Dispatched, Top.extendClass))
  /\ UNCHANGED <<Inputs, Config>>

\* lines 91-93
AnonymousArm ==
  /\ Dispatch("anonymous")
  /\ Continue(Frame("extendClass", Dispatched, Top.extendClass))
  /\ UNCHANGED <<Inputs, Config>>

\* lines 94-97
FallbackArm ==
  /\ Dispatch("fallback")
  /\ Return([DefaultSchemaObject(Dispatched) EXCEPT !.type = TypeOf(Dispatched).text])
  /\ UNCHANGED <<Inputs, Config>>

\* ------------------------------------------------------------ addRefTypeSchema
\* Array.prototype.findIndex over typeCache, as an index from 1 (0: not found)
First(S) == IF S = {} THEN 0 ELSE CHOOSE k \in S : \A j \in S : k <= j

\* line 103: typeCache.find(c => c.type === type)
CacheFindMiss(type) == 0

CacheFind(type) == First({k \in 1..Len(typeCache) : typeCache[k].type = type})

\* line 127: typeCache.findIndex(c => c.hashCode === hashCode && c.typeName === typeName)
HashIndex(hashCode, typeName) ==
  First({k \in 1..Len(typeCache) :
           typeCache[k].hashCode = hashCode /\ typeCache[k].typeName = typeName})

\* line 130: typeCache.findIndex(c => c.schemaName === schemaName)
NameIndex(schemaName) ==
  First({k \in 1..Len(typeCache) : typeCache[k].schemaName = schemaName})

\* lines 129-132: typeCache.splice(index, 1); an index of -1 (here 0) removes the last entry
SpliceMatched(k) ==
  LET at == HashIndex(GetHashCode(ret[1]), TypeOf(Top.type).symName) IN
  SubSeq(typeCache, 1, at - 1) \o SubSeq(typeCache, at + 1, Len(typeCache))

Splice(k) ==
  LET at == IF k = 0 THEN Len(typeCache) ELSE k IN
  SubSeq(typeCache, 1, at - 1) \o SubSeq(typeCache, at + 1, Len(typeCache))

\* lines 112-119: the name allocated for a type called typeName
AllocName(typeName) ==
  IF <<typeName, 0>> \notin DOMAIN schemaObjects
  THEN <<typeName, 0>>
  ELSE <<typeName,
         CHOOSE i \in 1..(Cardinality(DOMAIN schemaObjects) + 1) :
           /\ <<typeName, i>> \notin DOMAIN schemaObjects
           /\ \A j \in 1..(i - 1) : <<typeName, j>> \in DOMAIN schemaObjects>>

\* line 136: schemaObjects[schemaName] = schema
RegisterNothing(schemaName, schema) == schemaObjects

Register(schemaName, schema) ==
  [n \in DOMAIN schemaObjects \cup {schemaName} |->
     IF n = schemaName THEN schema ELSE schemaObjects[n]]

\* lines 103-108
AddRefCached ==
  /\ AtEntry("addRefTypeSchema")
  /\ CacheFind(Top.type) # 0
  /\ Return(RefObject(typeCache[CacheFind(Top.type)].schemaName))
  /\ UNCHANGED <<Inputs, Config>>

\* lines 110-124, up to the call of getSchemaByType(type, {...config, extendClass: true})
AddRefExpand ==
  /\ AtEntry("addRefTypeSchema")
  /\ CacheFind(Top.type) = 0
  /\ LET typeName == TypeOf(Top.type).symName
         schemaName == AllocName(typeName)
     IN /\ typeCache' = Append(typeCache,
                               [typeName |-> typeName, schemaName |-> schemaName,
                                type |-> Top.type, hashCode |-> <<>>])
        /\ Call([Top EXCEPT !.pc = "expanding", !.schemaName = schemaName], Top.type, TRUE)
  /\ UNCHANGED <<Inputs, schemaObjects, expanded>>

\* lines 124-128, 134-140: no earlier entry has the hash; finalize and register
AddRefRegister ==
  /\ Resumed("addRefTypeSchema", "expanding")
  /\ LET schema == ret[1]
         hashCode == GetHashCode(schema)
     IN /\ HashIndex(hashCode, TypeOf(Top.type).symName) = 0
        /\ typeCache' = [k \in 1..Len(typeCache) |->
                           IF typeCache[k].type = Top.type
                           THEN [typeCache[k] EXCEPT !.hashCode = hashCode]
                           ELSE typeCache[k]]
        /\ schemaObjects' = Register(Top.schemaName, schema)
        /\ expanded' = [expanded EXCEPT ![Top.type] = ret]
        /\ Return(RefObject(Top.schemaName))
  /\ UNCHANGED Inputs

\* lines 124-133: an earlier entry has the hash; the splice, then line 133 reads
\* cache.schemaName where cache (line 103) is undefined: a TypeError, which no
\* caller catches
AddRefDedup ==
  /\ Resumed("addRefTypeSchema", "expanding")
  /\ HashIndex(GetHashCode(ret[1]), TypeOf(Top.type).symName) # 0
  /\ typeCache' = Splice(NameIndex(Top.schemaName))
  /\ expanded' = [expanded EXCEPT ![Top.type] = ret]
  /\ stack' = <<>>
  /\ ret' = <<>>
  /\ status' = "thrown"
  /\ UNCHANGED <<Inputs, schemaObjects>>

\* ------------------------------------------------------------ extendClass
\* lines 162-169: the filter drops the member
Filtered(m) == m.hasDecl /\ m.modifier \in {"private", "protected"}

\* lines 182-187
MethodShaped(m) == m.hasDecl /\ m.declKind \in {"method", "methodSig", "arrow"}

\* lines 198-206: the type resolved from the declaration is function-shaped
FunctionShaped(t) == TypeOf(t).symName = "Function" \/ TypeOf(t).declArrow

\* lines 170-214: what forEach does with member m:
\* "skip" (return), "derive" (setProp(getSchemaByType(...))) or "any" (setProp({type: 'any'}))
MemberStep(m) ==
  IF Filtered(m) \/ MethodShaped(m) THEN "skip"
  ELSE IF m.targetType # NoType THEN "derive"
  ELSE IF m.hasDecl THEN (IF FunctionShaped(m.propType) THEN "skip" ELSE "derive")
  ELSE "any"

\* lines 192-196: the type handed to getSchemaByType
MemberType(m) == IF m.targetType # NoType THEN m.targetType ELSE m.propType

\* lines 172-180: setProp(value)
SetProp(schema, m, value) ==
  LET v == IF value.description # "" THEN value ELSE [value EXCEPT !.description = m.comment]
      ps == schema.properties
      at == First({k \in 1..Len(ps) : ps[k].name = m.escapedName})
  IN [schema EXCEPT
        !.required = IF m.hasDecl /\ m.questionToken THEN @ ELSE Append(@, m.escapedName),
        !.properties = IF at = 0 THEN Append(ps, [name |-> m.escapedName, value |-> v])
                       ELSE [ps EXCEPT ![at] = [name |-> m.escapedName, value |-> v]]]

InProps == status = "running" /\ stack # <<>> /\ Top.fn = "extendClass" /\ Top.pc = "props"
Member == TypeOf(Top.type).props[Top.i]

\* lines 148-159, up to the recursive call for the index type (if any)
ExtendClassEntry ==
  /\ AtEntry("extendClass")
  /\ LET schema == [DefaultSchemaObject(Top.type) EXCEPT !.type = "object",
                                                        !.hasProperties = TRUE]
         indexType == TypeOf(Top.type).indexType
     IN IF indexType # NoType
        THEN Call([Top EXCEPT !.pc = "index", !.schema = schema], indexType, FALSE)
        ELSE Continue([Top EXCEPT !.pc = "props", !.i = 1, !.schema = schema])
  /\ UNCHANGED <<Inputs, Config>>

\* line 158: schema.additionalProperties = ...
ExtendClassIndex ==
  /\ Resumed("extendClass", "index")
  /\ Continue([Top EXCEPT !.pc = "props", !.i = 1, !.schema.additionalProperties = ret])
  /\ UNCHANGED <<Inputs, Config>>

\* lines 162-169, 182-190, 198-206: the member is dropped
ExtendClassSkip ==
  /\ InProps /\ Top.i <= Len(TypeOf(Top.type).props)
  /\ MemberStep(Member) = "skip"
  /\ Continue([Top EXCEPT !.i = Top.i + 1])
  /\ UNCHANGED <<Inputs, Config>>

\* lines 192-194, 196, 208: up to the recursive call for the member's type
ExtendClassDerive ==
  /\ InProps /\ Top.i <= Len(TypeOf(Top.type).props)
  /\ MemberStep(Member) = "derive"
  /\ Call([Top EXCEPT !.pc = "prop"], MemberType(Member), FALSE)
  /\ UNCHANGED <<Inputs, Config>>

\* lines 194, 208: setProp(the fragment derived for the member's type)
ExtendClassSetProp ==
  /\ Resumed("extendClass", "prop")
  /\ Continue([Top EXCEPT !.pc = "props", !.i = Top.i + 1,
                          !.schema = SetProp(Top.schema, Member, ret[1])])
  /\ UNCHANGED <<Inputs, Config>>

\* lines 209-213
ExtendClassAny ==
  /\ InProps /\ Top.i <= Len(TypeOf(Top.type).props)
  /\ MemberStep(Member) = "any"
  /\ Continue([Top EXCEPT !.i = Top.i + 1,
                          !.schema = SetProp(Top.schema, Member,
                                             [EmptySchema EXCEPT !.type = "any"])])
  /\ UNCHANGED <<Inputs, Config>>

\* line 215
ExtendClassReturn ==
  /\ InProps /\ Top.i > Len(TypeOf(Top.type).props)
  /\ Return(Top.schema)
  /\ UNCHANGED <<Inputs, Config>>

\* ------------------------------------------------------------ the type graph's edges
Range(f) == {f[x] : x \in DOMAIN f}

\* the types a type's derivation descends into
Children(t) ==
  LET d == TypeOf(t) IN
  Range(d.typeArguments) \cup Range(d.types) \cup ({d.indexType} \ {NoType})
    \cup {MemberType(m) : m \in {x \in Range(d.props) : MemberStep(x) = "derive"}}

\* the types reachable from those of new, given that those of old are reached already
RECURSIVE Reach(_, _)
Reach(old, new) ==
  IF new = {} THEN old
  ELSE Reach(old \cup new, UNION {Children(t) : t \in new} \ (old \cup new))

Closure(S) == Reach({}, S)

\* ------------------------------------------------------------ inputs
NameSet == {"X", "Y"}
TargetSet == {"number", "Anon"} \cup Nominals

\* the member symbols the provider can hand out for the member of "M"
Members ==
  {m \in [escapedName : {"p"}, hasDecl : BOOLEAN,
          modifier : {"none", "public", "private", "protected"},
          declKind : {"property", "method", "methodSig", "arrow"},
          questionToken : BOOLEAN,
          targetType : {NoType, "number", "Function", "Arrow"},
          propType : {NoType, "number", "Function", "Arrow"},
          comment : {""}] :
     IF m.hasDecl THEN m.propType # NoType
     ELSE /\ m.modifier = "none" /\ m.declKind = "property"
          /\ ~m.questionToken /\ m.propType = NoType}

\* Children and Closure on the types of the varying inputs, from targets alone
InputChildren(t) ==
  IF t \in Nominals THEN {targets[NominalIndex(t)]}
  ELSE IF t \in {"U12", "Anon"} THEN {"N1", "N2"}
  ELSE {}

RECURSIVE InputReach(_, _)
InputReach(old, new) ==
  IF new = {} THEN old
  ELSE InputReach(old \cup new, UNION {InputChildren(t) : t \in new} \ (old \cup new))

DefaultNames == [i \in 1..NumNominal |-> IF i = 2 THEN "Y" ELSE "X"]
DefaultTargets == [i \in 1..NumNominal |-> "number"]
DefaultMember == [Prop("p", "number") EXCEPT !.comment = "a member"]

\* a fresh traversal: empty typeCache and schemaObjects, one pending root call
Init ==
  /\ \/ /\ targets \in [1..NumNominal -> TargetSet]
        /\ root \in [type : {"N1", "U12"}, extendClass : {FALSE}]
        /\ member = DefaultMember
        \* up to renaming: the first type is called "X", the types the traversal
        \* reaches are N1..Nk for some k, and a type it cannot reach, which plays no
        \* part, stays the default
        /\ LET reached == InputReach({}, {root.type}) IN
           /\ \A i \in 1..NumNominal :
                IF NominalIds[i] \in reached
                THEN \A j \in 1..i : NominalIds[j] \in reached
                ELSE targets[i] = DefaultTargets[i]
           /\ names \in {f \in [1..NumNominal -> NameSet] :
                           /\ f[1] = "X"
                           /\ \A i \in 1..NumNominal :
                                NominalIds[i] \notin reached => f[i] = DefaultNames[i]}
     \/ /\ names = DefaultNames
        /\ targets = DefaultTargets
        /\ member = DefaultMember
        /\ root \in [type : FixedTypes, extendClass : BOOLEAN]
     \/ /\ names = DefaultNames
        /\ targets = DefaultTargets
        /\ member \in Members
        /\ root \in [type : {"M"}, extendClass : BOOLEAN]
  /\ stack = <<Frame("getSchemaByType", root.type, root.extendClass)>>
  /\ ret = <<>>
  /\ typeCache = <<>>
  /\ schemaObjects = [n \in {} |-> EmptySchema]
  /\ status = "running"
  /\ expanded = [t \in TypeIds |-> <<>>]

Next ==
  \/ ArrayArm \/ ArrayReturn \/ BooleanArm \/ EnumArm \/ MembersArm \/ MembersStep
  \/ DateArm \/ ObjectArm \/ ClassArm \/ AnonymousArm \/ FallbackArm
  \/ AddRefCached \/ AddRefExpand \/ AddRefRegister \/ AddRefDedup
  \/ ExtendClassEntry \/ ExtendClassIndex \/ ExtendClassSkip \/ ExtendClassDerive
  \/ ExtendClassSetProp \/ ExtendClassAny \/ ExtendClassReturn

Spec == Init /\ [][Next]_vars

\* the call stack always makes progress: the traversal is one sequential computation
FairSpec == Spec /\ WF_vars(Next)

TypeOK ==
  /\ status \in {"running", "returned", "thrown"}
  /\ Len(stack) <= MaxDepth
  /\ status = "running" <=> stack # <<>>

\* ------------------------------------------------------------ helpers of the claims
\* the names a fragment refers to by $ref, at any depth
RECURSIVE Refs(_)
Refs(s) ==
  Range(s.ref)
    \cup UNION {Refs(x) : x \in Range(s.items) \cup Range(s.oneOf) \cup Range(s.allOf)
                                \cup Range(s.additionalProperties)}
    \cup UNION {Refs(x.value) : x \in Range(s.properties)}

\* t is reachable from itself through its members
SelfReachable(t) == t \in Closure(Children(t))

Entries == Range(typeCache)

\* ------------------------------------------------------------ C1
\* C1: on every type graph whose cycles all pass through a nominal type (every graph
\* Init draws), the root call ends after finitely many steps, and the recursion never
\* comes near the cap MaxDepth of the modelled stack: no depth limit ends it.
C1_Terminates == [](Len(stack) < MaxDepth) /\ <>(status # "running")

\* a traversal of the mutually recursive N1 -> N2 -> N1 has returned
C1_Witness ==
  /\ status = "returned" /\ root.type = "N1"
  /\ targets[1] = "N2" /\ targets[2] = "N1" /\ Len(typeCache) = 2

\* ------------------------------------------------------------ C2
\* C2: when the root call has returned, every $ref in the returned fragment and in
\* every registered fragment names a key of schemaObjects.
C2_NoDanglingRef ==
  status = "returned" =>
    \A s \in Range(ret) \cup Range(schemaObjects) : Refs(s) \subseteq DOMAIN schemaObjects

\* a traversal over two same-named nominal types has returned with references
C2_Witness ==
  /\ status = "returned" /\ root.type = "U12" /\ names[2] = "X"
  /\ Len(typeCache) >= 2 /\ Refs(ret[1]) # {}

\* ------------------------------------------------------------ C3
\* the deduplication branch (lines 127-128) is about to be taken
DedupCase ==
  /\ Resumed("addRefTypeSchema", "expanding")
  /\ HashIndex(GetHashCode(ret[1]), TypeOf(Top.type).symName) # 0

\* C3: when a second nominal type has the declared name and the structural hash of an
\* earlier finalized entry, addRefTypeSchema creates no schemaObjects entry for it and
\* returns a $ref carrying the schema name of that earlier entry.
C3_Coalesced ==
  [][DedupCase =>
       /\ ret' = <<RefObject(typeCache[HashIndex(GetHashCode(ret[1]),
                                                  TypeOf(Top.type).symName)].schemaName)>>
       /\ schemaObjects' = schemaObjects]_vars

\* ------------------------------------------------------------ C4
\* C4: when the root call has returned, two nominal types of the same declared name
\* and different expansions have different schema names, and each name maps to the
\* expansion of its own type.
C4_Disambiguated ==
  status = "returned" =>
    \A a \in Entries : \A b \in Entries :
      (a.type # b.type /\ a.typeName = b.typeName /\ expanded[a.type] # expanded[b.type]) =>
        /\ a.schemaName # b.schemaName
        /\ a.schemaName \in DOMAIN schemaObjects
        /\ <<schemaObjects[a.schemaName]>> = expanded[a.type]

\* ------------------------------------------------------------ C5
\* C5: no step of the derivation ends in a raised exception.
C5_Total == status # "thrown"

\* ------------------------------------------------------------ C6
\* C6: when the root call has returned, the fragment registered under the schema name
\* of a nominal type that is reachable from itself is that type's own expansion.
C6_CycleRegistered ==
  status = "returned" =>
    \A e \in Entries :
      SelfReachable(e.type) =>
        /\ e.schemaName \in DOMAIN schemaObjects
        /\ <<schemaObjects[e.schemaName]>> = expanded[e.type]

\* ------------------------------------------------------------ C7
\* C7: no typeCache entry is for an anonymous type, and whenever getSchemaByType is
\* dispatched on an anonymous type, in either mode, the call continues as extendClass
\* on that type and leaves typeCache and schemaObjects as they are.
C7_AnonymousInline ==
  /\ [](\A e \in Entries : ~TypeOf(e.type).anonymous)
  /\ [][(AtEntry("getSchemaByType") /\ TypeOf(Dispatched).anonymous) =>
          /\ Len(stack') = Len(stack)
          /\ stack'[Len(stack)].fn = "extendClass"
          /\ stack'[Len(stack)].type = Dispatched
          /\ typeCache' = typeCache /\ schemaObjects' = schemaObjects]_vars

\* a traversal from the anonymous type {a: N1, b?: N2} has returned, with N1 and N2 cached
C7_Witness ==
  /\ status = "returned" /\ root.type = "Anon" /\ Len(typeCache) = 2
  /\ ret[1].hasProperties /\ Len(ret[1].properties) = 2

\* ------------------------------------------------------------ C8
\* the member is private, protected, method-shaped, or has a function-shaped value type
Hidden(m) ==
  \/ m.modifier \in {"private", "protected"}
  \/ m.declKind \in {"method", "methodSig", "arrow"}
  \/ MemberType(m) # NoType /\ FunctionShaped(MemberType(m))

\* C8: in every object expansion, a hidden member is neither in properties nor in
\* required, whichever way its type is obtained.
C8_HiddenMembersAbsent ==
  \A k \in 1..Len(stack) :
    stack[k].fn = "extendClass" =>
      \A m \in Range(TypeOf(stack[k].type).props) :
        Hidden(m) =>
          /\ \A x \in Range(stack[k].schema.properties) : x.name # m.escapedName
          /\ \A x \in Range(stack[k].schema.required) : x # m.escapedName

\* ------------------------------------------------------------ C9
\* the type inside all the nested lazy wrappers of t
RECURSIVE Innermost(_)
Innermost(t) ==
  IF TypeOf(t).symName = "Promise" THEN Innermost(TypeOf(t).typeArguments[1]) ELSE t

\* C9: every dispatch of getSchemaByType acts on the type inside all the lazy wrappers
\* of its argument, so that no fragment is produced for a wrapper.
C9_Transparent ==
  [][(AtEntry("getSchemaByType") /\ stack' # stack) => Dispatched = Innermost(Top.type)]_vars

\* ------------------------------------------------------------ C10
\* C10: a dispatch on a boolean type (that is no array) returns at once a fragment of
\* type "boolean" without enum, oneOf or $ref, although the type is a union as well.
C10_Boolean ==
  [][(AtEntry("getSchemaByType") /\ TypeOf(Dispatched).flagBoolean
        /\ ~TypeOf(Dispatched).isArray) =>
       /\ ret' # <<>>
       /\ ret'[1].type = "boolean"
       /\ ret'[1].enum = <<>> /\ ret'[1].oneOf = <<>> /\ ret'[1].ref = <<>>]_vars

\* the root call on boolean, a union of true and false, has returned {type: "boolean"}
C10_Witness ==
  /\ status = "returned" /\ root.type \in {"boolean", "Promise<boolean>"}
  /\ TypeOf("boolean").isUnion /\ ret[1].type = "boolean"

\* the edges the inputs were normalised with are the edges of the type graph
InputReachOK ==
  root.type \in {"N1", "U12"} => InputReach({}, {root.type}) = Closure({root.type})

\* ------------------------------------------------------------ C11
\* the activations of addRefTypeSchema that wait at line 124 for the expansion of their type
Expanding == {k \in 1..Len(stack) : stack[k].fn = "addRefTypeSchema" /\ stack[k].pc = "expanding"}

\* C11: while addRefTypeSchema expands a type (line 124), typeCache holds an entry for
\* that type, pushed before the expansion began; a further call of addRefTypeSchema
\* for a type under expansion returns at once, and no type is under expansion by two
\* activations of addRefTypeSchema at a time.
C11_CacheBeforeExpand ==
  /\ [](/\ \A k \in Expanding : \E e \in Entries : e.type = stack[k].type
        /\ \A j \in Expanding : \A k \in Expanding : stack[j].type = stack[k].type => j = k)
  /\ [][(AtEntry("addRefTypeSchema") /\ \E k \in Expanding : stack[k].type = Top.type) =>
          /\ Len(stack') = Len(stack) - 1
          /\ ret' # <<>> /\ ret'[1].ref # <<>>]_vars

\* N1 is met again while addRefTypeSchema expands it: the call is about to return
\* from the cache
C11_Witness ==
  /\ AtEntry("addRefTypeSchema")
  /\ \E k \in Expanding : stack[k].type = Top.type
  /\ \E e \in Entries : e.type = Top.type /\ e.hashCode = <<>>

\* ------------------------------------------------------------ C12
\* C12: no two entries of typeCache have the same type.
C12_OneEntryPerType ==
  \A j \in 1..Len(typeCache) : \A k \in 1..Len(typeCache) :
    typeCache[j].type = typeCache[k].type => j = k

\* a type with an entry is met again (a cache hit is about to be taken) while
\* typeCache holds several entries
C12_Witness ==
  /\ AtEntry("addRefTypeSchema")
  /\ \E e \in Entries : e.type = Top.type
  /\ Len(typeCache) >= 2

\* ------------------------------------------------------------ C13
\* the schema names of the entries in typeCache
CachedNames == {e.schemaName : e \in Entries}

\* C13: in every state, the keys of schemaObjects are exactly the schema names of the
\* entries in typeCache.
C13_RegisteredIffCached == DOMAIN schemaObjects = CachedNames

\* C13 as amended: every key of schemaObjects is the schema name of an entry in
\* typeCache in every state, and once the root call has returned the two sets are equal.
C13_RegisteredThenCached ==
  /\ DOMAIN schemaObjects \subseteq CachedNames
  /\ status = "returned" => DOMAIN schemaObjects = CachedNames

\* a traversal over several nominal types has returned with all of them registered
C13_Witness ==
  /\ status = "returned" /\ Len(typeCache) >= 2
  /\ Cardinality(DOMAIN schemaObjects) >= 2

\* ------------------------------------------------------------ C14
\* C14: a name stored in schemaObjects stays, with the same fragment, in every later
\* state of the traversal.
C14_RegistryPermanent ==
  [][\A n \in DOMAIN schemaObjects :
       n \in DOMAIN schemaObjects' /\ schemaObjects'[n] = schemaObjects[n]]_vars

\* ------------------------------------------------------------ C15
\* C15: a call of addRefTypeSchema for a type that has an entry in typeCache returns
\* the $ref to that entry's schemaName and leaves typeCache and schemaObjects unchanged.
C15_CacheHit ==
  [][\A k \in 1..Len(typeCache) :
       (/\ AtEntry("addRefTypeSchema")
        /\ typeCache[k].type = Top.type
        /\ \A j \in 1..(k - 1) : typeCache[j].type # Top.type) =>
         /\ ret' = <<RefObject(typeCache[k].schemaName)>>
         /\ stack' = SubSeq(stack, 1, Len(stack) - 1)
         /\ typeCache' = typeCache /\ schemaObjects' = schemaObjects]_vars

\* a cache hit has just returned: the caller, extendClass, holds the $ref to the name
\* of the entry of its member's type, which is still provisional
C15_Witness ==
  /\ Resumed("extendClass", "prop")
  /\ \E e \in Entries : /\ e.type = MemberType(Member) /\ e.hashCode = <<>>
                        /\ ret = <<RefObject(e.schemaName)>>

\* ------------------------------------------------------------ C16
\* typeCache without the entries for type t
WithoutType(t) ==
  LET keep == {k \in 1..Len(typeCache) : typeCache[k].type # t}
      nth(n) == CHOOSE k \in keep : Cardinality({j \in keep : j <= k}) = n
  IN [n \in 1..Cardinality(keep) |-> typeCache[nth(n)]]

\* C16: the deduplication branch taken for a type removes from typeCache the entry of
\* that type and changes no other entry, and stores nothing in schemaObjects.
C16_RemovesOwnEntry ==
  [][DedupCase => /\ typeCache' = WithoutType(Top.type)
                  /\ schemaObjects' = schemaObjects]_vars

\* ------------------------------------------------------------ C17
\* C17: an entry's hashCode is set only by the activation of addRefTypeSchema that
\* expanded the entry's type, when the expansion has returned, to the hash of the
\* fragment it returned; an entry whose hashCode is set stays in typeCache unchanged.
C17_EntryLifeCycle ==
  [][\A e \in Entries :
       IF e.hashCode # <<>>
       THEN e \in Range(typeCache')
       ELSE \A f \in Range(typeCache') :
              (f.type = e.type /\ f.hashCode # <<>>) =>
                /\ Resumed("addRefTypeSchema", "expanding")
                /\ Top.type = e.type
                /\ f = [e EXCEPT !.hashCode = GetHashCode(ret[1])]
                /\ f.schemaName \in DOMAIN schemaObjects'
                /\ schemaObjects'[f.schemaName] = ret[1]]_vars

\* the deduplication branch has removed a provisional entry and the finalized entry
\* it matched is still in typeCache
C17_Witness ==
  /\ status = "thrown"
  /\ \E e \in Entries : e.hashCode # <<>> /\ e.schemaName \in DOMAIN schemaObjects
  /\ \E t \in Nominals : expanded[t] # <<>> /\ \A e \in Entries : e.type # t

\* ------------------------------------------------------------ C18
\* C18: the call made for an element or member type of an array, union or
\* intersection is in reference mode: it expands inline (continues as extendClass)
\* only an anonymous type, never a class or interface.
C18_MembersInReferenceMode ==
  \A k \in 1..(Len(stack) - 1) :
    (stack[k].fn = "getSchemaByType" /\ stack[k].pc \in {"items", "oneOf", "allOf"}) =>
      /\ stack[k + 1].fn = "getSchemaByType" => ~stack[k + 1].extendClass
      /\ stack[k + 1].fn = "extendClass" => TypeOf(stack[k + 1].type).anonymous

\* ------------------------------------------------------------ C19
\* C19: every key of schemaObjects is the schemaName of some typeCache entry whose
\* hashCode is set and equals the structural hash of the fragment stored under
\* that key.
C19_RegisteredBacked ==
  \A n \in DOMAIN schemaObjects :
    \E e \in Entries :
      /\ e.schemaName = n
      /\ e.hashCode # <<>>
      /\ e.hashCode = GetHashCode(schemaObjects[n])

\* a name registered twice: two finalized entries carry it, the later one backs it
C19_Witness ==
  \E n \in DOMAIN schemaObjects :
    \E e \in Entries : \E f \in Entries :
      /\ e.schemaName = n /\ f.schemaName = n /\ e.type # f.type
      /\ e.hashCode = GetHashCode(schemaObjects[n])
      /\ f.hashCode # <<>> /\ f.hashCode # e.hashCode

\* ------------------------------------------------------------ C20
\* C20: when a root traversal started in reference mode with empty structures has
\* returned normally, every entry left in typeCache has hashCode set and its
\* schemaName is a key of schemaObjects; every type whose entry was pushed and
\* expanded still has its finalized entry, an entry leaving typeCache only in the
\* deduplication branch.
C20_NoProvisionalLeft ==
  /\ []((status = "returned" /\ ~root.extendClass) =>
          /\ \A e \in Entries : e.hashCode # <<>> /\ e.schemaName \in DOMAIN schemaObjects
          /\ \A t \in TypeIds : expanded[t] # <<>> =>
               \E e \in Entries : e.type = t /\ e.hashCode # <<>>)
  /\ [][(\E e \in Entries : \A f \in Range(typeCache') : f.type # e.type) => DedupCase]_vars

C20_Witness ==
  /\ status = "returned" /\ ~root.extendClass
  /\ Len(typeCache) >= 2
  /\ \A e \in Entries : expanded[e.type] # <<>> /\ e.hashCode = GetHashCode(expanded[e.type][1])

====
